---- MODULE Spec2Model ----
(***************************************************************************)
(* netcp: a sender (listening peer) offers the files named on its command  *)
(* line over one TCP stream; a receiver (connecting peer) pulls them.      *)
(* Model of src/src/main.rs: the timed stream I/O loops, the wire codec,   *)
(* the session protocol of both roles and the chunked transfer loops.      *)
(***************************************************************************)
EXTENDS Integers, Sequences, FiniteSets, TLC

(***************************************************************************)
(* Program constants (main.rs:7-12, 182, 295), as the bytes they hold.     *)
(***************************************************************************)
\* "netcp v0.1"
CALL_SIGN == <<110, 101, 116, 99, 112, 32, 118, 48, 46, 49>>
\* "AGREE   "
MSG_AGREE == <<65, 71, 82, 69, 69, 32, 32, 32>>
\* "DISAGREE"
MSG_DISAGREE == <<68, 73, 83, 65, 71, 82, 69, 69>>
\* "FILE"
MSG_FILE == <<70, 73, 76, 69>>
\* "END "
MSG_END == <<69, 78, 68, 32>>
\* idle timeout in milliseconds
TIMEOUT == 800
\* length of the chunk buffer, let mut buf = [0u8; 512]
BUF_LEN == 512

(***************************************************************************)
(* Bounds of the model.                                                    *)
(***************************************************************************)
\* longest file list given to send
MaxFiles == 3
\* writes an unknown peer makes in the sessions against a foreign peer
MaxForeignWrites == 6
\* longest buffer handed to receive_data / send_data in the timed I/O runs
MaxBuf == 3
\* last clock value (ms) of the timed I/O runs
MaxClock == 2000

\* file sizes the sender's file system reports (get_filesize) in a session
\* of this sender with this receiver
Sizes == {0, 1, 512, 513, 1300}
\* file sizes in the sessions with a foreign peer
ForeignSizes == {0, 2, 513}

(***************************************************************************)
(* Bytes and 64-bit unsigned integers.  A u64 is held as its eight base-256*)
(* digits, least significant first, so that the arithmetic keeps its width.*)
(***************************************************************************)
Min(a, b) == IF a <= b THEN a ELSE b

RECURSIVE Digits(_, _)
Digits(n, k) == IF k = 0 THEN <<>> ELSE <<n % 256>> \o Digits(n \div 256, k - 1)

\* the u64 with value n (n a small natural)
U64(n) == Digits(n, 8)

\* the value of a u64 as a natural (used only where the value is small)
RECURSIVE U64Value(_)
U64Value(d) == IF d = <<>> THEN 0 ELSE Head(d) + 256 * U64Value(Tail(d))

\* a < b on u64, most significant digit first
RECURSIVE U64LtFrom(_, _, _)
U64LtFrom(a, b, k) ==
    IF k = 0 THEN FALSE
    ELSE IF a[k] # b[k] THEN a[k] < b[k]
    ELSE U64LtFrom(a, b, k - 1)

U64Lt(a, b) == U64LtFrom(a, b, 8)

U64Ge(a, b) == ~U64Lt(a, b)

\* a - b modulo 2^64, digit by digit with borrow
RECURSIVE SubDigits(_, _, _)
SubDigits(a, b, borrow) ==
    IF a = <<>> THEN <<>>
    ELSE LET d == Head(a) - Head(b) - borrow
         IN  <<d % 256>> \o SubDigits(Tail(a), Tail(b), IF d < 0 THEN 1 ELSE 0)

U64WrappingSub(a, b) == SubDigits(a, b, 0)

\* a + b modulo 2^64, digit by digit with carry
RECURSIVE AddDigits(_, _, _)
AddDigits(a, b, carry) ==
    IF a = <<>> THEN <<>>
    ELSE LET d == Head(a) + Head(b) + carry
         IN  <<d % 256>> \o AddDigits(Tail(a), Tail(b), d \div 256)

U64WrappingAdd(a, b) == AddDigits(a, b, 0)

Zeros(n) == [k \in 1..n |-> 0]

Reverse(s) == [k \in 1..Len(s) |-> s[Len(s) + 1 - k]]

\* the first n elements of s, and s without them
Take(s, n) == SubSeq(s, 1, n)
Drop(s, n) == SubSeq(s, n + 1, Len(s))

(***************************************************************************)
(* Wire codec (main.rs:107-167).                                           *)
(***************************************************************************)
\* byte order of the machine the peers of a session run on
TargetEndian == "little"

\* u64::to_le / u64::from_le: the identity on a little-endian host, a byte
\* swap on a big-endian one
to_le(host, num) == IF host = "little" THEN num ELSE Reverse(num)
from_le(host, num) == IF host = "little" THEN num ELSE Reverse(num)

\* transmute between a u64 and [u8; 8]: the bytes as they lie in memory
NativeBytes(host, num) == IF host = "little" THEN num ELSE Reverse(num)
FromNativeBytes(host, buf) == IF host = "little" THEN buf ELSE Reverse(buf)

\* mutant: the value is sent as it lies in memory, without to_le
send_u64_Native(host, num) == NativeBytes(host, num)

\* the 8 bytes send_u64 hands to send_data
send_u64(host, num) == NativeBytes(host, to_le(host, num))

\* the u64 receive_u64 returns for the 8 bytes receive_data filled in
receive_u64(host, buf) == from_le(host, FromNativeBytes(host, buf))

\* mutant: the string is sent with a terminating NUL behind it
send_string_Terminated(host, string) ==
    send_u64(host, U64(Len(string))) \o string \o <<0>>

\* the bytes send_string hands to send_data, in its two calls
send_string(host, string) == send_u64(host, U64(Len(string))) \o string

\* compare_byte_array: length first, then byte by byte
RECURSIVE BytesEqualFrom(_, _, _)
BytesEqualFrom(a, b, i) ==
    IF i > Len(a) THEN TRUE
    ELSE IF a[i] # b[i] THEN FALSE
    ELSE BytesEqualFrom(a, b, i + 1)

\* mutant: the lengths are not compared; the shorter length decides how many
\* bytes are looked at
compare_byte_array_Prefix(a, b) ==
    BytesEqualFrom(Take(a, Min(Len(a), Len(b))), b, 1)

compare_byte_array(a, b) ==
    IF Len(a) # Len(b) THEN FALSE ELSE BytesEqualFrom(a, b, 1)

\* mutant: whatever is not AGREE is taken for DISAGREE
check_agreement_ElseFalse(vec) ==
    IF compare_byte_array(vec, MSG_AGREE) THEN "true" ELSE "false"

\* check_agreement on the 8 bytes read: true, false, or error("Invalid protocol")
check_agreement(vec) ==
    IF compare_byte_array(vec, MSG_AGREE) THEN "true"
    ELSE IF compare_byte_array(vec, MSG_DISAGREE) THEN "false"
    ELSE "error"

\* String::from_utf8 succeeds: well-formed UTF-8 (Unicode table 3-7)
IsCont(b) == b >= 128 /\ b <= 191

RECURSIVE IsUtf8From(_, _)
IsUtf8From(v, i) ==
    IF i > Len(v) THEN TRUE
    ELSE LET b == v[i]
             n == Len(v) - i + 1
         IN  IF b <= 127 THEN IsUtf8From(v, i + 1)
             ELSE IF b >= 194 /\ b <= 223
                  THEN n >= 2 /\ IsCont(v[i + 1]) /\ IsUtf8From(v, i + 2)
             ELSE IF b >= 224 /\ b <= 239
                  THEN /\ n >= 3
                       /\ IsCont(v[i + 1]) /\ IsCont(v[i + 2])
                       /\ (b = 224 => v[i + 1] >= 160)
                       /\ (b = 237 => v[i + 1] <= 159)
                       /\ IsUtf8From(v, i + 3)
             ELSE IF b >= 240 /\ b <= 244
                  THEN /\ n >= 4
                       /\ IsCont(v[i + 1]) /\ IsCont(v[i + 2]) /\ IsCont(v[i + 3])
                       /\ (b = 240 => v[i + 1] >= 144)
                       /\ (b = 244 => v[i + 1] <= 143)
                       /\ IsUtf8From(v, i + 4)
             ELSE FALSE

IsUtf8(v) == IsUtf8From(v, 1)

(***************************************************************************)
(* The sender's files.  The command line gives the names; the size of a    *)
(* file is what get_filesize reports when the file is opened in the loop.  *)
(***************************************************************************)
\* the k-th name of a file list: "a.bin", "b.bin", ...
NameOf(k) == <<96 + k, 46, 98, 105, 110>>

FileList(n) == [k \in 1..n |-> NameOf(k)]

\* the byte at offset k (from 1) of a file being sent
FileByte(k) == k % 251

\* what file.read delivers: n bytes from position pos of a file
FileChunk(pos, n) == [k \in 1..n |-> FileByte(pos + k)]

(***************************************************************************)
(* State.                                                                  *)
(***************************************************************************)
VARIABLES
    toSender,        \* bytes written by the receiver, not yet read by the sender
    toReceiver,      \* bytes written by the sender, not yet read by the receiver
    overflowChecks,  \* the build: TRUE panics on integer overflow, FALSE wraps
    file_names,      \* send: the file names of the command line
    spc,             \* send: position in the code
    sErr,            \* send: message of error(), "" if none
    sIdx,            \* send: number of files opened so far in the for loop
    sFilesize,       \* send: filesize of the open file (u64)
    sI,              \* send: i of the transfer loop (u64)
    sFilePos,        \* send: read position of the open file
    sLog,            \* send: the stream reads and writes done, in order
    rpc,             \* receive: position in the code
    rErr,            \* receive: message of error(), "" if none
    rFilesize,       \* receive: filesize (u64)
    rNameLen,        \* receive_string: size (u64)
    rFilename,       \* receive: filename
    rI,              \* receive: i of the transfer loop (u64)
    dest,            \* receive: the files of the working directory, name -> bytes
    rLog,            \* receive: the stream reads and writes and the file
                     \* creations done, in order
    fWrites,         \* number of writes a foreign peer has made
    ioPc,            \* receive_data, send_data: position in the code
    ioKind,          \* which of the two is running
    ioLen,           \* buf.len(), data.len()
    ioCount,         \* received_bytes, sended_bytes
    ioBegin,         \* begin: the time of the last progress (ms)
    ioChecked,       \* the time the loop condition last read (ms)
    ioLast,          \* bytes of the last read or write, -1 before the first
    ioErr,           \* message of error(), "" if none
    ioNow,           \* the clock, time::get_time() (ms)
    ioAvail,         \* bytes the stream can move without blocking
    ioEof,           \* the stream moves no more bytes (the peer is gone)
    codecPc,         \* wire codec on its own: the function that ran last
    sendHost,        \* byte order of the machine that encodes
    recvHost,        \* byte order of the machine that decodes
    codecIn,         \* the argument of the encoding function
    wire,            \* the bytes on the stream between the two
    codecOut         \* what the decoding function returned

streamVars == <<toSender, toReceiver>>
sendVars == <<file_names, spc, sErr, sIdx, sFilesize, sI, sFilePos, sLog>>
recvVars == <<rpc, rErr, rFilesize, rNameLen, rFilename, rI, dest, rLog>>
vars == <<toSender, toReceiver, overflowChecks, file_names, spc, sErr, sIdx,
          sFilesize, sI, sFilePos, sLog, rpc, rErr, rFilesize, rNameLen,
          rFilename, rI, dest, rLog, fWrites, ioPc, ioKind, ioLen, ioCount,
          ioBegin, ioChecked, ioLast, ioErr, ioNow, ioAvail, ioEof,
          codecPc, sendHost, recvHost, codecIn, wire, codecOut>>

\* the codec runs are separate from the sessions and from the timed I/O runs
codecVars == <<codecPc, sendHost, recvHost, codecIn, wire, codecOut>>
ioVars == <<ioPc, ioKind, ioLen, ioCount, ioBegin, ioChecked, ioLast, ioErr,
            ioNow, ioAvail, ioEof, codecVars>>
sessionVars == <<toSender, toReceiver, overflowChecks, sendVars, recvVars,
                 fWrites, codecVars>>

(***************************************************************************)
(* Timed stream I/O: receive_data (main.rs:59-81) and send_data            *)
(* (main.rs:83-105), one call of either, against a stream whose reads and  *)
(* writes move between 0 and all of the bytes asked for, and a clock that  *)
(* only moves forward.                                                     *)
(***************************************************************************)
\* steps of the clock, in milliseconds
ClockSteps == {400, 500}

\* `(begin - time::get_time()).num_milliseconds()`
ElapsedMs(begin, now) == begin - now

\* the condition of the while loop
IoLoopCondition(count, len, begin, now) ==
    count < len /\ ElapsedMs(begin, now) < TIMEOUT

\* what the function does once the loop is left
IoAfterLoop(count, len) ==
    IF count < len THEN "Connection lost (timeout)" ELSE ""

IoIdle ==
    /\ ioPc = "idle"
    /\ ioKind = "none"
    /\ ioLen = 0
    /\ ioCount = 0
    /\ ioBegin = 0
    /\ ioChecked = 0
    /\ ioLast = -1
    /\ ioErr = ""
    /\ ioNow = 0
    /\ ioAvail = 0
    /\ ioEof = FALSE

CodecIdle ==
    /\ codecPc = "idle"
    /\ sendHost = TargetEndian
    /\ recvHost = TargetEndian
    /\ codecIn = <<>>
    /\ wire = <<>>
    /\ codecOut = <<>>

\* 60-61, 84-85: the call
IO_Call ==
    /\ ioPc = "idle"
    /\ \E kind \in {"receive_data", "send_data"}, len \in 0..MaxBuf :
          /\ ioKind' = kind
          /\ ioLen' = len
    /\ ioBegin' = ioNow
    /\ ioCount' = 0
    /\ ioPc' = "check"
    /\ UNCHANGED <<sessionVars, ioChecked, ioLast, ioErr, ioNow, ioAvail, ioEof>>

\* 63, 78-80 and 87, 102-104: the loop condition, and the end of the function
IO_Check ==
    /\ ioPc = "check"
    /\ ioChecked' = ioNow
    /\ IF IoLoopCondition(ioCount, ioLen, ioBegin, ioNow)
       THEN ioPc' = "attempt" /\ ioErr' = ioErr
       ELSE IF IoAfterLoop(ioCount, ioLen) # ""
       THEN ioPc' = "error" /\ ioErr' = IoAfterLoop(ioCount, ioLen)
       ELSE ioPc' = "returned" /\ ioErr' = ioErr
    /\ UNCHANGED <<sessionVars, ioKind, ioLen, ioCount, ioBegin, ioLast, ioNow,
                   ioAvail, ioEof>>

\* mutant: begin is taken once, when the call starts, and never again
IO_Attempt_NoReset ==
    /\ ioPc = "attempt"
    /\ \E bytes \in 0..Min(ioAvail, ioLen - ioCount) :
          /\ (bytes = 0) = (ioAvail = 0)
          /\ ioAvail = 0 => ioEof
          /\ ioCount' = ioCount + bytes
          /\ ioAvail' = ioAvail - bytes
          /\ ioLast' = bytes
          /\ ioBegin' = ioBegin
    /\ ioPc' = "check"
    /\ UNCHANGED <<sessionVars, ioKind, ioLen, ioChecked, ioErr, ioNow, ioEof>>

\* mutant: the whole buffer is handed to stream.read / stream.write at every
\* attempt, not the part of it that is still to be moved
IO_Attempt_WholeBuffer ==
    /\ ioPc = "attempt"
    /\ \E bytes \in 0..Min(ioAvail, ioLen) :
          /\ (bytes = 0) = (ioAvail = 0)
          /\ ioAvail = 0 => ioEof
          /\ ioCount' = ioCount + bytes
          /\ ioAvail' = ioAvail - bytes
          /\ ioLast' = bytes
          /\ ioBegin' = IF bytes # 0 THEN ioNow ELSE ioBegin
    /\ ioPc' = "check"
    /\ UNCHANGED <<sessionVars, ioKind, ioLen, ioChecked, ioErr, ioNow, ioEof>>

\* 64-75, 88-99: stream.read / stream.write returns Ok(bytes)
IO_Attempt ==
    /\ ioPc = "attempt"
    /\ \E bytes \in 0..Min(ioAvail, ioLen - ioCount) :
          /\ (bytes = 0) = (ioAvail = 0)
          /\ ioAvail = 0 => ioEof
          /\ ioCount' = ioCount + bytes
          /\ ioAvail' = ioAvail - bytes
          /\ ioLast' = bytes
          /\ ioBegin' = IF bytes # 0 THEN ioNow ELSE ioBegin
    /\ ioPc' = "check"
    /\ UNCHANGED <<sessionVars, ioKind, ioLen, ioChecked, ioErr, ioNow, ioEof>>

\* 66-68, 90-92: stream.read / stream.write returns Err
IO_AttemptFails ==
    /\ ioPc = "attempt"
    /\ ioPc' = "error"
    /\ ioErr' = "Connection lost"
    /\ UNCHANGED <<sessionVars, ioKind, ioLen, ioCount, ioBegin, ioChecked,
                   ioLast, ioNow, ioAvail, ioEof>>

\* the stream: bytes arrive (room is made), while it is open
IO_Arrive ==
    /\ ~ioEof
    /\ ioPc \in {"check", "attempt"}
    /\ \E k \in 1..MaxBuf :
          /\ ioAvail + k <= MaxBuf
          /\ ioAvail' = ioAvail + k
    /\ UNCHANGED <<sessionVars, ioPc, ioKind, ioLen, ioCount, ioBegin,
                   ioChecked, ioLast, ioErr, ioNow, ioEof>>

\* the stream: the peer closes it; from now on nothing arrives
IO_Close ==
    /\ ~ioEof
    /\ ioPc \in {"check", "attempt"}
    /\ ioEof' = TRUE
    /\ UNCHANGED <<sessionVars, ioPc, ioKind, ioLen, ioCount, ioBegin,
                   ioChecked, ioLast, ioErr, ioNow, ioAvail>>

\* the clock
IO_Tick ==
    /\ ioPc \in {"check", "attempt"}
    /\ \E d \in ClockSteps :
          /\ ioNow + d <= MaxClock
          /\ ioNow' = ioNow + d
    /\ UNCHANGED <<sessionVars, ioPc, ioKind, ioLen, ioCount, ioBegin,
                   ioChecked, ioLast, ioErr, ioAvail, ioEof>>

\* the status the process of a peer ends with: error() exits with 1, a
\* panic with 101, the return from main with 0; -1 while it runs
ExitStatus(pc) ==
    CASE pc = "error" -> 1
      [] pc = "panic" -> 101
      [] pc = "done" -> 0
      [] OTHER -> -1

\* receive_data returns: the stream holds the n bytes asked for
CanReceive(stream, n) == Len(stream) >= n

Op(dir, what, len) == <<dir, what, len>>

(***************************************************************************)
(* The transfer loops (main.rs:268-285 and 347-364).  One evaluation of    *)
(* the loop: the condition `i < (filesize-1)` and, if it holds, the branch *)
(* taken.  `filesize-1` on a u64 of 0 panics in a build with overflow      *)
(* checks and wraps to 2^64-1 in one without.                              *)
(***************************************************************************)
\* mutant: the last chunk is sent as the whole buffer, not the slice
SendLoopStep_WholeBuffer(checks, filesize, i) ==
    IF checks /\ U64Lt(filesize, U64(1))
    THEN [kind |-> "panic", len |-> 0, i |-> i]
    ELSE IF U64Lt(i, U64WrappingSub(filesize, U64(1)))
    THEN IF U64Ge(U64WrappingSub(filesize, i), U64(BUF_LEN))
         THEN [kind |-> "chunk", len |-> BUF_LEN,
               i |-> U64WrappingAdd(i, U64(BUF_LEN))]
         ELSE [kind |-> "chunk", len |-> BUF_LEN,
               i |-> U64WrappingSub(filesize, U64(1))]
    ELSE [kind |-> "exit", len |-> 0, i |-> i]

SendLoopStep(checks, filesize, i) ==
    IF checks /\ U64Lt(filesize, U64(1))
    THEN [kind |-> "panic", len |-> 0, i |-> i]
    ELSE IF U64Lt(i, U64WrappingSub(filesize, U64(1)))
    THEN IF U64Ge(U64WrappingSub(filesize, i), U64(BUF_LEN))
         THEN [kind |-> "chunk", len |-> BUF_LEN,
               i |-> U64WrappingAdd(i, U64(BUF_LEN))]
         ELSE [kind |-> "chunk", len |-> U64Value(U64WrappingSub(filesize, i)),
               i |-> U64WrappingSub(filesize, U64(1))]
    ELSE [kind |-> "exit", len |-> 0, i |-> i]

\* mutant: the receiver's loop runs to filesize, the sender's to filesize-1
ReceiveLoopStep_ToFilesize(checks, filesize, i) ==
    IF U64Lt(i, filesize)
    THEN IF U64Ge(U64WrappingSub(filesize, i), U64(BUF_LEN))
         THEN [kind |-> "chunk", len |-> BUF_LEN,
               i |-> U64WrappingAdd(i, U64(BUF_LEN))]
         ELSE [kind |-> "chunk", len |-> U64Value(U64WrappingSub(filesize, i)),
               i |-> filesize]
    ELSE [kind |-> "exit", len |-> 0, i |-> i]

ReceiveLoopStep(checks, filesize, i) ==
    IF checks /\ U64Lt(filesize, U64(1))
    THEN [kind |-> "panic", len |-> 0, i |-> i]
    ELSE IF U64Lt(i, U64WrappingSub(filesize, U64(1)))
    THEN IF U64Ge(U64WrappingSub(filesize, i), U64(BUF_LEN))
         THEN [kind |-> "chunk", len |-> BUF_LEN,
               i |-> U64WrappingAdd(i, U64(BUF_LEN))]
         ELSE [kind |-> "chunk", len |-> U64Value(U64WrappingSub(filesize, i)),
               i |-> U64WrappingSub(filesize, U64(1))]
    ELSE [kind |-> "exit", len |-> 0, i |-> i]

(***************************************************************************)
(* send (main.rs:176-292), from the accepted connection on.                *)
(***************************************************************************)
\* mutant: only the version digit before the dot is compared ("netcp v0.")
VerifyCallsign_MajorOnly(buf) ==
    compare_byte_array(Take(CALL_SIGN, 9), Take(buf, 9))

\* 227: the bytes read are the call sign
VerifyCallsign(buf) == compare_byte_array(CALL_SIGN, buf)

\* mutant: the loop stops one file early
AllFilesSent_OneEarly(idx, names) == idx + 1 >= Len(names)

\* 236: the for loop has gone through the whole list
AllFilesSent(idx, names) == idx >= Len(names)

\* mutant: the `continue` after a DISAGREE is missing
SendAfterAnswer_NoSkip(answer) ==
    CASE answer = "true" -> "loop"
      [] answer = "false" -> "loop"
      [] OTHER -> "error"

\* 263-268: where send goes on after check_agreement
SendAfterAnswer(answer) ==
    CASE answer = "true" -> "loop"
      [] answer = "false" -> "next"
      [] OTHER -> "error"

\* the name of an 8-byte answer in the logs
TokenName(answer) ==
    CASE answer = "true" -> "AGREE"
      [] answer = "false" -> "DISAGREE"
      [] OTHER -> "TOKEN"

\* 225-229: read the call sign and compare it
S_VerifyCallsign ==
    /\ spc = "callsign"
    /\ CanReceive(toSender, Len(CALL_SIGN))
    /\ LET buf == Take(toSender, Len(CALL_SIGN))
       IN  /\ toSender' = Drop(toSender, Len(CALL_SIGN))
           /\ sLog' = Append(sLog, Op("recv", "CALLSIGN", Len(CALL_SIGN)))
           /\ IF VerifyCallsign(buf) = FALSE
              THEN spc' = "error" /\ sErr' = "Invalid protocol"
              ELSE spc' = "agree" /\ sErr' = sErr
    /\ UNCHANGED <<toReceiver, overflowChecks, file_names, sIdx, sFilesize, sI,
                   sFilePos, recvVars, fWrites, ioVars>>

\* 231: answer the call sign
S_SendAgree ==
    /\ spc = "agree"
    /\ toReceiver' = toReceiver \o MSG_AGREE
    /\ sLog' = Append(sLog, Op("send", "AGREE", Len(MSG_AGREE)))
    /\ spc' = "next"
    /\ UNCHANGED <<toSender, overflowChecks, file_names, sErr, sIdx, sFilesize,
                   sI, sFilePos, recvVars, fWrites, ioVars>>

\* the sizes the files of the sender can have
FileSizes == IF rpc = "foreign" THEN ForeignSizes ELSE Sizes

\* 236-246: the next file of the list is opened, its size taken, FILE sent
S_NextFile ==
    /\ spc = "next"
    /\ ~AllFilesSent(sIdx, file_names)
    /\ \E size \in FileSizes :
          /\ sFilesize' = U64(size)
          /\ sFilePos' = 0
          /\ sIdx' = sIdx + 1
          /\ toReceiver' = toReceiver \o MSG_FILE
          /\ sLog' = Append(sLog, Op("send", "FILE", Len(MSG_FILE)))
          /\ spc' = "size"
    /\ UNCHANGED <<toSender, overflowChecks, file_names, sErr, sI, recvVars,
                   fWrites, ioVars>>

\* 247: the file size
S_SendSize ==
    /\ spc = "size"
    /\ toReceiver' = toReceiver \o send_u64(TargetEndian, sFilesize)
    /\ sLog' = Append(sLog, Op("send", "SIZE", 8))
    /\ spc' = "name"
    /\ UNCHANGED <<toSender, overflowChecks, file_names, sErr, sIdx, sFilesize,
                   sI, sFilePos, recvVars, fWrites, ioVars>>

\* mutant: the sender does not wait for the answer to an offer and starts
\* the transfer right after the name
S_SendName_NoAwait ==
    /\ spc = "name"
    /\ LET data == send_string(TargetEndian, file_names[sIdx])
       IN  /\ toReceiver' = toReceiver \o data
           /\ sLog' = Append(sLog, Op("send", "NAME", Len(data)))
    /\ spc' = "loop"
    /\ UNCHANGED <<toSender, overflowChecks, file_names, sErr, sIdx, sFilesize,
                   sI, sFilePos, recvVars, fWrites, ioVars>>

\* 250-258: the file name
S_SendName ==
    /\ spc = "name"
    /\ LET data == send_string(TargetEndian, file_names[sIdx])
       IN  /\ toReceiver' = toReceiver \o data
           /\ sLog' = Append(sLog, Op("send", "NAME", Len(data)))
    /\ spc' = "await"
    /\ UNCHANGED <<toSender, overflowChecks, file_names, sErr, sIdx, sFilesize,
                   sI, sFilePos, recvVars, fWrites, ioVars>>

\* 263-269: the receiver's answer
S_CheckAgreement ==
    /\ spc = "await"
    /\ CanReceive(toSender, Len(MSG_AGREE))
    /\ LET answer == check_agreement(Take(toSender, Len(MSG_AGREE)))
       IN  /\ toSender' = Drop(toSender, Len(MSG_AGREE))
           /\ sLog' = Append(sLog, Op("recv", TokenName(answer), Len(MSG_AGREE)))
           /\ spc' = SendAfterAnswer(answer)
           /\ sI' = IF answer = "true" THEN U64(0) ELSE sI
           /\ sErr' = IF answer = "error" THEN "Invalid protocol" ELSE sErr
    /\ UNCHANGED <<toReceiver, overflowChecks, file_names, sIdx, sFilesize,
                   sFilePos, recvVars, fWrites, ioVars>>

\* 270-287: one evaluation of the transfer loop
S_TransferLoop ==
    /\ spc = "loop"
    /\ LET step == SendLoopStep(overflowChecks, sFilesize, sI)
       IN  CASE step.kind = "panic" ->
                  /\ spc' = "panic"
                  /\ UNCHANGED <<toReceiver, sI, sFilePos, sLog>>
             [] step.kind = "exit" ->
                  /\ spc' = "next"
                  /\ UNCHANGED <<toReceiver, sI, sFilePos, sLog>>
             [] OTHER ->
                  /\ toReceiver' = toReceiver \o FileChunk(sFilePos, step.len)
                  /\ sFilePos' = sFilePos + step.len
                  /\ sI' = step.i
                  /\ sLog' = IF step.len = 0 THEN sLog
                             ELSE Append(sLog, Op("send", "DATA", step.len))
                  /\ spc' = "loop"
    /\ UNCHANGED <<toSender, overflowChecks, file_names, sErr, sIdx, sFilesize,
                   recvVars, fWrites, ioVars>>

\* 291: the end marker
S_SendEnd ==
    /\ spc = "next"
    /\ AllFilesSent(sIdx, file_names)
    /\ toReceiver' = toReceiver \o MSG_END
    /\ sLog' = Append(sLog, Op("send", "END", Len(MSG_END)))
    /\ spc' = "done"
    /\ UNCHANGED <<toSender, overflowChecks, file_names, sErr, sIdx, sFilesize,
                   sI, sFilePos, recvVars, fWrites, ioVars>>

(***************************************************************************)
(* receive (main.rs:294-368), from the established connection on.          *)
(***************************************************************************)
\* File::create(work_dir.join(filename)): the file exists and is empty
CreateFile(files, name) == [n \in DOMAIN files \cup {name} |->
                               IF n = name THEN <<>> ELSE files[n]]

\* file.write(data) on the file created under name: appended at the end
WriteFile(files, name, data) == [files EXCEPT ![name] = @ \o data]

\* mutant: the result of check_agreement is not looked at
ReceiveAfterHandshake_Ignored(answer) ==
    CASE answer = "true" -> [pc |-> "marker", err |-> ""]
      [] answer = "false" -> [pc |-> "marker", err |-> ""]
      [] OTHER -> [pc |-> "error", err |-> "Invalid protocol"]

\* 313-315: where receive goes on after the answer to the call sign
ReceiveAfterHandshake(answer) ==
    CASE answer = "true" -> [pc |-> "marker", err |-> ""]
      [] answer = "false" -> [pc |-> "error", err |-> "No server found"]
      [] OTHER -> [pc |-> "error", err |-> "Invalid protocol"]

\* mutant: whatever is not END is taken for FILE
ClassifyMarker_EndOrFile(msg_file) ==
    IF compare_byte_array(msg_file, MSG_END) THEN "END" ELSE "FILE"

\* mutant: the `continue` after a failed creation is missing
ReceiveAfterCreate_NoContinue(created) ==
    IF created
    THEN [answer |-> MSG_AGREE, name |-> "AGREE", pc |-> "loop"]
    ELSE [answer |-> MSG_DISAGREE, name |-> "DISAGREE", pc |-> "loop"]

\* 322-327: what the 4 bytes read at the top of the loop are
ClassifyMarker(msg_file) ==
    IF compare_byte_array(msg_file, MSG_END) THEN "END"
    ELSE IF compare_byte_array(msg_file, MSG_FILE) = FALSE THEN "MARKER"
    ELSE "FILE"

\* 333-343: the answer to the offer and where receive goes on
ReceiveAfterCreate(created) ==
    IF created
    THEN [answer |-> MSG_AGREE, name |-> "AGREE", pc |-> "loop"]
    ELSE [answer |-> MSG_DISAGREE, name |-> "DISAGREE", pc |-> "marker"]

\* mutant: a name that is no UTF-8 makes the receiver go on to the next
\* marker instead of stopping
ReceiveAfterName_SkipFile(valid) ==
    IF valid THEN [pc |-> "create", err |-> ""]
    ELSE [pc |-> "marker", err |-> ""]

\* 130-135: where receive goes on after String::from_utf8
ReceiveAfterName(valid) ==
    IF valid THEN [pc |-> "create", err |-> ""]
    ELSE [pc |-> "error", err |-> "Couldn't convert bytes to string"]

\* 311: the call sign
R_SendCallsign ==
    /\ rpc = "callsign"
    /\ toSender' = toSender \o CALL_SIGN
    /\ rLog' = Append(rLog, Op("send", "CALLSIGN", Len(CALL_SIGN)))
    /\ rpc' = "agreement"
    /\ UNCHANGED <<toReceiver, overflowChecks, sendVars, rErr, rFilesize,
                   rNameLen, rFilename, rI, dest, fWrites, ioVars>>

\* 313-315: the answer to the call sign
R_CheckAgreement ==
    /\ rpc = "agreement"
    /\ CanReceive(toReceiver, Len(MSG_AGREE))
    /\ LET answer == check_agreement(Take(toReceiver, Len(MSG_AGREE)))
       IN  /\ toReceiver' = Drop(toReceiver, Len(MSG_AGREE))
           /\ rLog' = Append(rLog, Op("recv", TokenName(answer), Len(MSG_AGREE)))
           /\ rpc' = ReceiveAfterHandshake(answer).pc
           /\ rErr' = ReceiveAfterHandshake(answer).err
    /\ UNCHANGED <<toSender, overflowChecks, sendVars, rFilesize, rNameLen,
                   rFilename, rI, dest, fWrites, ioVars>>

\* 320-327: the marker that opens an iteration of the loop
R_ReadMarker ==
    /\ rpc = "marker"
    /\ CanReceive(toReceiver, Len(MSG_FILE))
    /\ LET msg_file == Take(toReceiver, Len(MSG_FILE))
           marker == ClassifyMarker(msg_file)
       IN  /\ toReceiver' = Drop(toReceiver, Len(MSG_FILE))
           /\ rLog' = Append(rLog, Op("recv", marker, Len(MSG_FILE)))
           /\ CASE marker = "END" -> rpc' = "done" /\ rErr' = rErr
                [] marker = "FILE" -> rpc' = "size" /\ rErr' = rErr
                [] OTHER -> rpc' = "error" /\ rErr' = "Invalid protocol"
    /\ UNCHANGED <<toSender, overflowChecks, sendVars, rFilesize, rNameLen,
                   rFilename, rI, dest, fWrites, ioVars>>

\* 329: the file size
R_ReadSize ==
    /\ rpc = "size"
    /\ CanReceive(toReceiver, 8)
    /\ rFilesize' = receive_u64(TargetEndian, Take(toReceiver, 8))
    /\ toReceiver' = Drop(toReceiver, 8)
    /\ rLog' = Append(rLog, Op("recv", "SIZE", 8))
    /\ rpc' = "namelen"
    /\ UNCHANGED <<toSender, overflowChecks, sendVars, rErr, rNameLen,
                   rFilename, rI, dest, fWrites, ioVars>>

\* 126: receive_string reads the length of the name
R_ReadNameLen ==
    /\ rpc = "namelen"
    /\ CanReceive(toReceiver, 8)
    /\ rNameLen' = receive_u64(TargetEndian, Take(toReceiver, 8))
    /\ toReceiver' = Drop(toReceiver, 8)
    /\ rLog' = Append(rLog, Op("recv", "NAMELEN", 8))
    /\ rpc' = "name"
    /\ UNCHANGED <<toSender, overflowChecks, sendVars, rErr, rFilesize,
                   rFilename, rI, dest, fWrites, ioVars>>

\* 127-135: receive_string reads the bytes of the name and converts them
R_ReadName ==
    /\ rpc = "name"
    /\ U64Ge(U64(Len(toReceiver)), rNameLen)
    /\ LET size == U64Value(rNameLen)
           vec == Take(toReceiver, size)
       IN  /\ toReceiver' = Drop(toReceiver, size)
           /\ rLog' = Append(rLog, Op("recv", "NAME", size))
           /\ rpc' = ReceiveAfterName(IsUtf8(vec)).pc
           /\ rErr' = ReceiveAfterName(IsUtf8(vec)).err
           /\ rFilename' = IF IsUtf8(vec) THEN vec ELSE rFilename
    /\ UNCHANGED <<toSender, overflowChecks, sendVars, rFilesize, rNameLen, rI,
                   dest, fWrites, ioVars>>

\* 332-343: the file is created and the offer answered
R_CreateFile ==
    /\ rpc = "create"
    /\ \E created \in BOOLEAN :
          LET after == ReceiveAfterCreate(created)
          IN  /\ dest' = IF created THEN CreateFile(dest, rFilename) ELSE dest
              /\ toSender' = toSender \o after.answer
              /\ rLog' = rLog \o
                    << Op("create", IF created THEN "ok" ELSE "failed", 0),
                       Op("send", after.name, Len(after.answer)) >>
              /\ rI' = IF after.pc = "loop" THEN U64(0) ELSE rI
              /\ rpc' = after.pc
    /\ UNCHANGED <<toReceiver, overflowChecks, sendVars, rErr, rFilesize,
                   rNameLen, rFilename, fWrites, ioVars>>

\* 349-366: one evaluation of the transfer loop
R_TransferLoop ==
    /\ rpc = "loop"
    /\ LET step == ReceiveLoopStep(overflowChecks, rFilesize, rI)
       IN  CASE step.kind = "panic" ->
                  /\ rpc' = "panic"
                  /\ UNCHANGED <<toReceiver, rI, dest, rLog>>
             [] step.kind = "exit" ->
                  /\ rpc' = "marker"
                  /\ UNCHANGED <<toReceiver, rI, dest, rLog>>
             [] OTHER ->
                  /\ CanReceive(toReceiver, step.len)
                  /\ dest' = WriteFile(dest, rFilename, Take(toReceiver, step.len))
                  /\ toReceiver' = Drop(toReceiver, step.len)
                  /\ rI' = step.i
                  /\ rLog' = IF step.len = 0 THEN rLog
                             ELSE Append(rLog, Op("recv", "DATA", step.len))
                  /\ rpc' = "loop"
    /\ UNCHANGED <<toSender, overflowChecks, sendVars, rErr, rFilesize,
                   rNameLen, rFilename, fWrites, ioVars>>

(***************************************************************************)
(* A session between this sender and this receiver.                        *)
(***************************************************************************)
InitSender ==
    /\ spc = "callsign"
    /\ sErr = ""
    /\ sIdx = 0
    /\ sFilesize = U64(0)
    /\ sI = U64(0)
    /\ sFilePos = 0
    /\ sLog = <<>>

InitReceiver ==
    /\ rpc = "callsign"
    /\ rErr = ""
    /\ rFilesize = U64(0)
    /\ rNameLen = U64(0)
    /\ rFilename = <<>>
    /\ rI = U64(0)
    /\ dest = <<>>
    /\ rLog = <<>>

Init ==
    /\ toSender = <<>>
    /\ toReceiver = <<>>
    /\ overflowChecks \in BOOLEAN
    /\ \E n \in 0..MaxFiles : file_names = FileList(n)
    /\ InitSender
    /\ InitReceiver
    /\ fWrites = 0
    /\ IoIdle
    /\ CodecIdle

SendNext ==
    \/ S_VerifyCallsign
    \/ S_SendAgree
    \/ S_NextFile
    \/ S_SendSize
    \/ S_SendName
    \/ S_CheckAgreement
    \/ S_TransferLoop
    \/ S_SendEnd

ReceiveNext ==
    \/ R_SendCallsign
    \/ R_CheckAgreement
    \/ R_ReadMarker
    \/ R_ReadSize
    \/ R_ReadNameLen
    \/ R_ReadName
    \/ R_CreateFile
    \/ R_TransferLoop

Next == SendNext \/ ReceiveNext

Spec == Init /\ [][Next]_vars

\* the same session with both processes running: a peer that can take its
\* next step (it is not blocked in a read) does so; the stream delivers
\* every byte written, so a read blocks only while the bytes are not written
SpecLive == Init /\ [][Next]_vars /\ WF_vars(SendNext) /\ WF_vars(ReceiveNext)

(***************************************************************************)
(* Sessions with a peer that is not this program.  The stream is a TCP     *)
(* connection: whoever connects to the sender, or listens where the        *)
(* receiver connects, chooses the bytes.  The foreign peer keeps the       *)
(* framing (it writes one field when the program has nothing left to read) *)
(* and chooses the value of the field freely among the ones below.         *)
(***************************************************************************)
\* 10- and 18-byte openings of a foreign client: the call sign, "netcp v0.2",
\* "NETCP V0.1", and the call sign with an early answer behind it
ForeignCallsigns ==
    { CALL_SIGN,
      <<110, 101, 116, 99, 112, 32, 118, 48, 46, 50>>,
      <<78, 69, 84, 67, 80, 32, 86, 48, 46, 49>>,
      CALL_SIGN \o MSG_AGREE }

\* 8-byte tokens: AGREE, DISAGREE, "agree   ", "AGREE" padded with NUL
ForeignTokens ==
    { MSG_AGREE, MSG_DISAGREE,
      <<97, 103, 114, 101, 101, 32, 32, 32>>,
      <<65, 71, 82, 69, 69, 0, 0, 0>> }

\* 4-byte markers: FILE, END, "file", "END" padded with NUL
ForeignMarkers ==
    { MSG_FILE, MSG_END, <<102, 105, 108, 101>>, <<69, 78, 68, 0>> }

\* names a foreign server sends: "a", "", and a byte that is no UTF-8
ForeignNames == { <<97>>, <<>>, <<255>> }

ForeignClientItems ==
    IF spc = "callsign" THEN ForeignCallsigns
    ELSE IF spc = "await" THEN ForeignTokens
    ELSE {}

ForeignServerItems ==
    CASE rpc = "agreement" -> ForeignTokens
      [] rpc = "marker" -> ForeignMarkers
      [] rpc = "size" -> { send_u64(TargetEndian, U64(n)) : n \in ForeignSizes }
      [] rpc = "namelen" -> { send_string(TargetEndian, s) : s \in ForeignNames }
      [] rpc = "loop" -> { Zeros(2), Zeros(BUF_LEN) }
      [] rpc \in {"done", "error", "panic"} -> { MSG_FILE }
      [] OTHER -> {}

\* whoever connected to the sender writes
F_ClientWrite ==
    /\ rpc = "foreign"
    /\ fWrites < MaxForeignWrites
    /\ toSender = <<>>
    /\ \E item \in ForeignClientItems : toSender' = toSender \o item
    /\ fWrites' = fWrites + 1
    /\ UNCHANGED <<toReceiver, overflowChecks, sendVars, recvVars, ioVars>>

\* whoever the receiver connected to writes
F_ServerWrite ==
    /\ spc = "foreign"
    /\ fWrites < MaxForeignWrites
    /\ toReceiver = <<>>
    /\ \E item \in ForeignServerItems : toReceiver' = toReceiver \o item
    /\ fWrites' = fWrites + 1
    /\ UNCHANGED <<toSender, overflowChecks, sendVars, recvVars, ioVars>>

\* the sender, and a foreign client
InitForeignClient ==
    /\ toSender = <<>>
    /\ toReceiver = <<>>
    /\ overflowChecks \in BOOLEAN
    /\ \E n \in 0..MaxFiles : file_names = FileList(n)
    /\ InitSender
    /\ rpc = "foreign"
    /\ rErr = ""
    /\ rFilesize = U64(0)
    /\ rNameLen = U64(0)
    /\ rFilename = <<>>
    /\ rI = U64(0)
    /\ dest = <<>>
    /\ rLog = <<>>
    /\ fWrites = 0
    /\ IoIdle
    /\ CodecIdle

SpecForeignClient ==
    InitForeignClient /\ [][SendNext \/ F_ClientWrite]_vars

\* the receiver, and a foreign server
InitForeignServer ==
    /\ toSender = <<>>
    /\ toReceiver = <<>>
    /\ overflowChecks \in BOOLEAN
    /\ file_names = <<>>
    /\ spc = "foreign"
    /\ sErr = ""
    /\ sIdx = 0
    /\ sFilesize = U64(0)
    /\ sI = U64(0)
    /\ sFilePos = 0
    /\ sLog = <<>>
    /\ InitReceiver
    /\ fWrites = 0
    /\ IoIdle
    /\ CodecIdle

SpecForeignServer ==
    InitForeignServer /\ [][ReceiveNext \/ F_ServerWrite]_vars

(***************************************************************************)
(* Sessions over a stream that can fail.  A stream.read or stream.write    *)
(* inside receive_data / send_data returns Err (main.rs:66-68, 90-92): the *)
(* call the peer is in ends in error("Connection lost"), after earlier     *)
(* attempts of the same call may have moved some of its bytes.             *)
(***************************************************************************)
\* bytes a call has moved before the attempt that fails
PartialMoves == {0, 1}

\* the send_data / receive_data call send is in or about to make: its
\* direction and, for a write, the data, for a read, as many zeros as the
\* buffer is long; "none" when it makes no stream call
S_PendingIo ==
    CASE spc = "callsign" -> <<"recv", Zeros(Len(CALL_SIGN))>>
      [] spc = "agree" -> <<"send", MSG_AGREE>>
      [] spc = "next" ->
           <<"send", IF AllFilesSent(sIdx, file_names) THEN MSG_END ELSE MSG_FILE>>
      [] spc = "size" -> <<"send", send_u64(TargetEndian, sFilesize)>>
      [] spc = "name" ->
           <<"send", send_u64(TargetEndian, U64(Len(file_names[sIdx])))>>
      [] spc = "await" -> <<"recv", Zeros(Len(MSG_AGREE))>>
      [] spc = "loop" ->
           IF SendLoopStep(overflowChecks, sFilesize, sI).kind = "chunk"
           THEN <<"send", FileChunk(sFilePos,
                             SendLoopStep(overflowChecks, sFilesize, sI).len)>>
           ELSE <<"none", <<>> >>
      [] OTHER -> <<"none", <<>> >>

\* the same for receive
R_PendingIo ==
    CASE rpc = "callsign" -> <<"send", CALL_SIGN>>
      [] rpc = "agreement" -> <<"recv", Zeros(Len(MSG_AGREE))>>
      [] rpc = "marker" -> <<"recv", Zeros(Len(MSG_FILE))>>
      [] rpc = "size" -> <<"recv", Zeros(8)>>
      [] rpc = "namelen" -> <<"recv", Zeros(8)>>
      [] rpc = "name" ->
           <<"recv", Zeros(IF U64Lt(rNameLen, U64(BUF_LEN))
                           THEN U64Value(rNameLen) ELSE BUF_LEN)>>
      [] rpc = "loop" ->
           IF ReceiveLoopStep(overflowChecks, rFilesize, rI).kind = "chunk"
           THEN <<"recv", Zeros(ReceiveLoopStep(overflowChecks, rFilesize, rI).len)>>
           ELSE <<"none", <<>> >>
      [] OTHER -> <<"none", <<>> >>

\* 66-68, 90-92 in send: the call ends in error("Connection lost")
S_ConnectionLost ==
    /\ S_PendingIo[1] # "none"
    /\ \E moved \in PartialMoves :
          /\ moved < Len(S_PendingIo[2])
          /\ IF S_PendingIo[1] = "recv"
             THEN /\ moved <= Len(toSender)
                  /\ toSender' = Drop(toSender, moved)
                  /\ toReceiver' = toReceiver
             ELSE /\ toReceiver' = toReceiver \o Take(S_PendingIo[2], moved)
                  /\ toSender' = toSender
    /\ spc' = "error"
    /\ sErr' = "Connection lost"
    /\ UNCHANGED <<overflowChecks, file_names, sIdx, sFilesize, sI, sFilePos,
                   sLog, recvVars, fWrites, ioVars>>

\* 66-68, 90-92 in receive: the call ends in error("Connection lost")
R_ConnectionLost ==
    /\ R_PendingIo[1] # "none"
    /\ \E moved \in PartialMoves :
          /\ moved < Len(R_PendingIo[2])
          /\ IF R_PendingIo[1] = "recv"
             THEN /\ moved <= Len(toReceiver)
                  /\ toReceiver' = Drop(toReceiver, moved)
                  /\ toSender' = toSender
             ELSE /\ toSender' = toSender \o Take(R_PendingIo[2], moved)
                  /\ toReceiver' = toReceiver
    /\ rpc' = "error"
    /\ rErr' = "Connection lost"
    /\ UNCHANGED <<overflowChecks, sendVars, rFilesize, rNameLen, rFilename,
                   rI, dest, rLog, fWrites, ioVars>>

\* send against any client, or receive against any server, over such a stream
SpecAnyPeer ==
    /\ InitForeignClient \/ InitForeignServer
    /\ [][\/ SendNext
          \/ ReceiveNext
          \/ F_ClientWrite
          \/ F_ServerWrite
          \/ S_ConnectionLost
          \/ R_ConnectionLost]_vars

(***************************************************************************)
(* One call of receive_data or send_data, on its own.                      *)
(***************************************************************************)
InitTimedIo ==
    /\ toSender = <<>>
    /\ toReceiver = <<>>
    /\ overflowChecks = FALSE
    /\ file_names = <<>>
    /\ spc = "foreign"
    /\ sErr = ""
    /\ sIdx = 0
    /\ sFilesize = U64(0)
    /\ sI = U64(0)
    /\ sFilePos = 0
    /\ sLog = <<>>
    /\ rpc = "foreign"
    /\ rErr = ""
    /\ rFilesize = U64(0)
    /\ rNameLen = U64(0)
    /\ rFilename = <<>>
    /\ rI = U64(0)
    /\ dest = <<>>
    /\ rLog = <<>>
    /\ fWrites = 0
    /\ IoIdle
    /\ CodecIdle

TimedIoNext ==
    \/ IO_Call
    \/ IO_Check
    \/ IO_Attempt
    \/ IO_AttemptFails
    \/ IO_Arrive
    \/ IO_Close
    \/ IO_Tick

SpecTimedIo == InitTimedIo /\ [][TimedIoNext]_vars

(***************************************************************************)
(* The wire codec on its own: a value is encoded on one machine and the    *)
(* bytes are decoded on another, of the same or of the other byte order.   *)
(***************************************************************************)
Hosts == {"little", "big"}

\* u64 values: small ones, ones with a single non-zero byte at each of the
\* eight positions, 0x0102030405060708, and 2^64 - 1
U64Samples ==
    { U64(n) : n \in {0, 1, 255, 256, 513, 1300, 65536} }
    \cup { [k \in 1..8 |-> IF k = p THEN d ELSE 0] : p \in 1..8, d \in {1, 128, 255} }
    \cup { <<8, 7, 6, 5, 4, 3, 2, 1>>, [k \in 1..8 |-> 255] }

\* 107-111: send_u64(stream, num)
Codec_SendU64 ==
    /\ codecPc = "idle"
    /\ \E num \in U64Samples :
          /\ codecIn' = num
          /\ wire' = wire \o send_u64(sendHost, num)
    /\ codecPc' = "send_u64"
    /\ UNCHANGED <<toSender, toReceiver, overflowChecks, sendVars, recvVars,
                   fWrites, ioPc, ioKind, ioLen, ioCount, ioBegin, ioChecked,
                   ioLast, ioErr, ioNow, ioAvail, ioEof, sendHost, recvHost,
                   codecOut>>

\* 113-117: receive_u64(stream)
Codec_ReceiveU64 ==
    /\ codecPc = "send_u64"
    /\ CanReceive(wire, 8)
    /\ codecOut' = receive_u64(recvHost, Take(wire, 8))
    /\ wire' = Drop(wire, 8)
    /\ codecPc' = "receive_u64"
    /\ UNCHANGED <<toSender, toReceiver, overflowChecks, sendVars, recvVars,
                   fWrites, ioPc, ioKind, ioLen, ioCount, ioBegin, ioChecked,
                   ioLast, ioErr, ioNow, ioAvail, ioEof, sendHost, recvHost,
                   codecIn>>

\* UTF-8 strings: "", "a", "a.bin", "a b", a NUL between letters, two-,
\* three- and four-byte characters, and a string of 60 bytes
StringSamples ==
    { <<>>, <<97>>, NameOf(1), <<97, 32, 98>>, <<97, 0, 98>>,
      <<195, 169>>, <<226, 130, 172>>, <<240, 159, 152, 128>>,
      <<97, 195, 169, 46, 226, 130, 172>>,
      [k \in 1..60 |-> 97] }

\* 119-123: send_string(stream, string)
Codec_SendString ==
    /\ codecPc = "idle"
    /\ \E string \in StringSamples :
          /\ codecIn' = string
          /\ wire' = wire \o send_string(sendHost, string)
    /\ codecPc' = "send_string"
    /\ UNCHANGED <<toSender, toReceiver, overflowChecks, sendVars, recvVars,
                   fWrites, ioPc, ioKind, ioLen, ioCount, ioBegin, ioChecked,
                   ioLast, ioErr, ioNow, ioAvail, ioEof, sendHost, recvHost,
                   codecOut>>

\* the sender goes on: the next thing it writes lies behind the string
Codec_SendMore ==
    /\ codecPc = "send_string"
    /\ Len(wire) = 8 + Len(codecIn)
    /\ wire' = wire \o MSG_END
    /\ UNCHANGED <<toSender, toReceiver, overflowChecks, sendVars, recvVars,
                   fWrites, ioPc, ioKind, ioLen, ioCount, ioBegin, ioChecked,
                   ioLast, ioErr, ioNow, ioAvail, ioEof, codecPc, sendHost,
                   recvHost, codecIn, codecOut>>

\* 125-136: receive_string(stream)
Codec_ReceiveString ==
    /\ codecPc = "send_string"
    /\ CanReceive(wire, 8)
    /\ LET size == receive_u64(recvHost, Take(wire, 8))
       IN  /\ U64Ge(U64(Len(wire) - 8), size)
           /\ LET vec == Take(Drop(wire, 8), U64Value(size))
              IN  /\ wire' = Drop(Drop(wire, 8), U64Value(size))
                  /\ IF IsUtf8(vec)
                     THEN codecOut' = vec /\ codecPc' = "receive_string"
                     ELSE codecOut' = codecOut /\ codecPc' = "error"
    /\ UNCHANGED <<toSender, toReceiver, overflowChecks, sendVars, recvVars,
                   fWrites, ioPc, ioKind, ioLen, ioCount, ioBegin, ioChecked,
                   ioLast, ioErr, ioNow, ioAvail, ioEof, sendHost, recvHost,
                   codecIn>>

\* byte arrays: the five tokens; "AGREE" cut to 5 bytes, padded to 7 and to
\* 9, padded with NUL, in lower case; "DISAGRE"; "END" cut to 3 bytes; none
ByteArraySamples ==
    { CALL_SIGN, MSG_AGREE, MSG_DISAGREE, MSG_FILE, MSG_END,
      <<65, 71, 82, 69, 69>>,
      <<65, 71, 82, 69, 69, 32, 32>>,
      <<65, 71, 82, 69, 69, 32, 32, 32, 32>>,
      <<65, 71, 82, 69, 69, 0, 0, 0>>,
      <<97, 103, 114, 101, 101, 32, 32, 32>>,
      <<68, 73, 83, 65, 71, 82, 69>>,
      <<69, 78, 68>>,
      <<>> }

\* 155-167: compare_byte_array(a, b)
Codec_Compare ==
    /\ codecPc = "idle"
    /\ \E a \in ByteArraySamples, b \in ByteArraySamples :
          /\ codecIn' = <<a, b>>
          /\ codecOut' = <<compare_byte_array(a, b)>>
    /\ codecPc' = "compare_byte_array"
    /\ UNCHANGED <<toSender, toReceiver, overflowChecks, sendVars, recvVars,
                   fWrites, ioPc, ioKind, ioLen, ioCount, ioBegin, ioChecked,
                   ioLast, ioErr, ioNow, ioAvail, ioEof, sendHost, recvHost,
                   wire>>

InitCodec ==
    /\ toSender = <<>>
    /\ toReceiver = <<>>
    /\ overflowChecks = FALSE
    /\ file_names = <<>>
    /\ spc = "foreign"
    /\ sErr = ""
    /\ sIdx = 0
    /\ sFilesize = U64(0)
    /\ sI = U64(0)
    /\ sFilePos = 0
    /\ sLog = <<>>
    /\ rpc = "foreign"
    /\ rErr = ""
    /\ rFilesize = U64(0)
    /\ rNameLen = U64(0)
    /\ rFilename = <<>>
    /\ rI = U64(0)
    /\ dest = <<>>
    /\ rLog = <<>>
    /\ fWrites = 0
    /\ IoIdle
    /\ codecPc = "idle"
    /\ sendHost \in Hosts
    /\ recvHost \in Hosts
    /\ codecIn = <<>>
    /\ wire = <<>>
    /\ codecOut = <<>>

CodecNext ==
    \/ Codec_SendU64
    \/ Codec_ReceiveU64
    \/ Codec_SendString
    \/ Codec_SendMore
    \/ Codec_ReceiveString
    \/ Codec_Compare

SpecCodec == InitCodec /\ [][CodecNext]_vars

(***************************************************************************)
(* Reading the logs.                                                       *)
(***************************************************************************)
Last(log) == log[Len(log)]
Front(log) == SubSeq(log, 1, Len(log) - 1)

RECURSIVE Sum(_)
Sum(s) == IF s = <<>> THEN 0 ELSE Head(s) + Sum(Tail(s))

IsData(op) == op[2] = "DATA"

\* the lengths of the payload chunks at the end of a log, in order
RECURSIVE DataSuffix(_)
DataSuffix(log) ==
    IF log = <<>> \/ ~IsData(Last(log)) THEN <<>>
    ELSE Append(DataSuffix(Front(log)), Last(log)[3])

\* the log without the payload chunks at its end
RECURSIVE WithoutData(_)
WithoutData(log) ==
    IF log = <<>> \/ ~IsData(Last(log)) THEN log
    ELSE WithoutData(Front(log))

\* the sender is in, or has just left, the transfer of a file answered AGREE
SAccepted ==
    /\ WithoutData(sLog) # <<>>
    /\ Last(WithoutData(sLog)) = Op("recv", "AGREE", 8)

\* the receiver is in, or has just left, the transfer of a file it accepted
RAccepted ==
    /\ WithoutData(rLog) # <<>>
    /\ Last(WithoutData(rLog)) = Op("send", "AGREE", 8)

IsAnswer(op) == op = Op("recv", "AGREE", 8) \/ op = Op("recv", "DISAGREE", 8)

\* the answers the sender has read, one per file offered, in order
SAnswers == [k \in 1..Len(SelectSeq(sLog, IsAnswer)) |->
                SelectSeq(sLog, IsAnswer)[k][2]]

(***************************************************************************)
(* C1.  An accepted file arrives whole: when the sender has left the       *)
(* transfer loop of a file answered AGREE it has put exactly `filesize`    *)
(* payload bytes on the stream, and when the receiver has left its loop it *)
(* has read exactly `filesize` bytes and the destination file holds them.  *)
(***************************************************************************)
C1_ExactSize ==
    /\ (spc = "next" /\ SAccepted) =>
          Sum(DataSuffix(sLog)) = U64Value(sFilesize)
    /\ (rpc = "marker" /\ RAccepted) =>
          /\ Sum(DataSuffix(rLog)) = U64Value(rFilesize)
          /\ Len(dest[rFilename]) = U64Value(rFilesize)

(***************************************************************************)
(* C2.  A stalled call times out: receive_data and send_data go on to      *)
(* another read or write after one that moved zero bytes only if, when the *)
(* loop condition looked at the clock, no more than the idle timeout had   *)
(* passed since the last progress; otherwise the call has failed.          *)
(***************************************************************************)
C2_StallTimesOut ==
    (ioPc = "attempt" /\ ioLast = 0) => ioChecked - ioBegin <= TIMEOUT

(***************************************************************************)
(* C3.  The sender sends payload only for files answered AGREE: a payload  *)
(* chunk follows an AGREE or another chunk of the same file, a DISAGREE is *)
(* followed by the next FILE or by END and by nothing else, an AGREE takes *)
(* the sender into the transfer loop, a finished sender has written END    *)
(* last, and at the end of the session the receiver holds files for        *)
(* exactly the offers answered AGREE.                                      *)
(***************************************************************************)
C3_SkipOnDisagree ==
    /\ \A k \in 1..Len(sLog) :
          /\ sLog[k] = Op("recv", "DISAGREE", 8) =>
                IF k = Len(sLog) THEN spc = "next"
                ELSE sLog[k + 1] \in {Op("send", "FILE", 4), Op("send", "END", 4)}
          /\ sLog[k] = Op("recv", "AGREE", 8) =>
                IF k = Len(sLog) THEN spc \in {"loop", "next", "panic"}
                ELSE /\ sLog[k + 1][1] = "send"
                     /\ sLog[k + 1][2] \in {"DATA", "FILE", "END"}
          /\ IsData(sLog[k]) =>
                /\ sLog[k][1] = "send"
                /\ k > 1
                /\ sLog[k - 1] = Op("recv", "AGREE", 8) \/ IsData(sLog[k - 1])
    /\ spc = "done" => Last(sLog) = Op("send", "END", 4)
    /\ (spc = "done" /\ rpc = "done") =>
          DOMAIN dest = { file_names[k] : k \in { j \in 1..Len(SAnswers) :
                                                    SAnswers[j] = "AGREE" } }

C3_Witness ==
    /\ spc = "done"
    /\ rpc = "done"
    /\ SAnswers = <<"AGREE", "DISAGREE", "AGREE">>
    /\ DOMAIN dest = {NameOf(1), NameOf(3)}
    /\ Len(dest[NameOf(1)]) > 0
    /\ Len(dest[NameOf(3)]) > 0

(***************************************************************************)
(* C4.  A 0-byte file that the receiver accepts is transferred without a   *)
(* payload chunk and without any peer aborting: both peers go through the  *)
(* transfer loop and on to the next marker, and the destination file       *)
(* exists and is empty.                                                    *)
(***************************************************************************)
C4_ZeroByteFile ==
    /\ (SAccepted /\ sFilesize = U64(0)) =>
          /\ spc \in {"loop", "next"}
          /\ DataSuffix(sLog) = <<>>
    /\ (RAccepted /\ rFilesize = U64(0)) =>
          /\ rpc \in {"loop", "marker"}
          /\ DataSuffix(rLog) = <<>>
          /\ rFilename \in DOMAIN dest
          /\ dest[rFilename] = <<>>

(***************************************************************************)
(* C5.  Every payload chunk of a transfer has length min(512, remaining),  *)
(* remaining being the declared size minus the bytes already moved: every  *)
(* chunk but the last is 512 bytes and no chunk is empty, on the sender    *)
(* and on the receiver; a 1300-byte file goes as 512, 512, 276.            *)
(***************************************************************************)
ChunksOk(chunks, size) ==
    \A k \in 1..Len(chunks) :
       /\ chunks[k] = Min(BUF_LEN, size - Sum(Take(chunks, k - 1)))
       /\ chunks[k] > 0
       /\ k < Len(chunks) => chunks[k] = BUF_LEN

C5_ChunkLengths ==
    /\ SAccepted => ChunksOk(DataSuffix(sLog), U64Value(sFilesize))
    /\ RAccepted => ChunksOk(DataSuffix(rLog), U64Value(rFilesize))
    /\ (spc = "next" /\ SAccepted /\ sFilesize = U64(1300)) =>
          DataSuffix(sLog) = <<512, 512, 276>>
    /\ (rpc = "marker" /\ RAccepted /\ rFilesize = U64(1300)) =>
          DataSuffix(rLog) = <<512, 512, 276>>

C5_Witness ==
    /\ rpc = "marker"
    /\ RAccepted
    /\ rFilesize = U64(1300)
    /\ DataSuffix(rLog) = <<512, 512, 276>>
    /\ Len(dest[rFilename]) = 1300

(***************************************************************************)
(* C6.  A file the receiver cannot create is refused and the session goes  *)
(* on: the failed creation is followed by DISAGREE, then by the read of    *)
(* the next marker and by no payload read; the receiver is not in an       *)
(* error; and no file is made for the refused offer.                       *)
(***************************************************************************)
IsCreateOk(op) == op = Op("create", "ok", 0)

C6_CreateFailure ==
    /\ \A k \in 1..Len(rLog) :
          rLog[k] = Op("create", "failed", 0) =>
             /\ k < Len(rLog)
             /\ rLog[k + 1] = Op("send", "DISAGREE", 8)
             /\ IF k + 1 = Len(rLog)
                THEN rpc = "marker" /\ rErr = ""
                ELSE rLog[k + 2] \in {Op("recv", "FILE", 4), Op("recv", "END", 4)}
    /\ Cardinality(DOMAIN dest) = Len(SelectSeq(rLog, IsCreateOk))

\* a refused file, and after it a file that was accepted and transferred
C6_Witness ==
    /\ rpc = "done"
    /\ \E j, k \in 1..Len(rLog) :
          /\ j < k
          /\ rLog[j] = Op("create", "failed", 0)
          /\ rLog[k] = Op("create", "ok", 0)
          /\ k + 2 <= Len(rLog)
          /\ rLog[k + 2] = Op("recv", "DATA", BUF_LEN)
    /\ Len(dest[rFilename]) >= BUF_LEN

(***************************************************************************)
(* C7.  A receiver whose call sign is answered with DISAGREE stops with    *)
(* "No server found": the 8 bytes of the answer are the last it reads, it  *)
(* creates no file and writes nothing after the call sign, whatever the    *)
(* server writes next.                                                     *)
(***************************************************************************)
\* the stream toward the receiver is only written to: nothing is read
NothingRead == Len(toReceiver') >= Len(toReceiver)
                 /\ Take(toReceiver', Len(toReceiver)) = toReceiver

C7_Refused ==
    /\ rpc = "agreement"
    /\ rpc' # rpc
    /\ Take(toReceiver, 8) = MSG_DISAGREE

C7_NoServerFound ==
    /\ [](rErr = "No server found" =>
             /\ rpc = "error"
             /\ rLog = <<Op("send", "CALLSIGN", 10), Op("recv", "DISAGREE", 8)>>
             /\ dest = <<>>
             /\ toSender = CALL_SIGN)
    /\ [][C7_Refused => rpc' = "error" /\ rErr' = "No server found"]_vars
    /\ [][rErr = "No server found" => (NothingRead /\ recvVars' = recvVars)]_vars

\* stopped after the DISAGREE, with a marker of the server left unread
C7_Witness ==
    /\ rpc = "error"
    /\ rErr = "No server found"
    /\ toReceiver = MSG_FILE

(***************************************************************************)
(* C8.  The sender reads exactly the 10 bytes of a call sign; it answers   *)
(* AGREE if and only if they are "netcp v0.1"; otherwise it stops with     *)
(* "Invalid protocol" and has written nothing.  It never writes DISAGREE.  *)
(***************************************************************************)
C8_Handshake ==
    /\ spc = "callsign"
    /\ spc' # spc

C8_CallsignOrNothing ==
    /\ [](/\ \A k \in 1..Len(sLog) :
                /\ (sLog[k] = Op("recv", "CALLSIGN", 10)) = (k = 1)
                /\ (sLog[k] = Op("send", "AGREE", 8)) = (k = 2)
                /\ sLog[k][1] = "send" =>
                      sLog[k][2] \in {"AGREE", "FILE", "SIZE", "NAME", "DATA", "END"}
          /\ Len(sLog) >= 2 => Take(toReceiver, 8) = MSG_AGREE
          /\ (spc = "error" /\ Len(sLog) = 1) =>
                sErr = "Invalid protocol" /\ toReceiver = <<>>)
    /\ [][C8_Handshake =>
             /\ toSender' = Drop(toSender, 10)
             /\ toReceiver' = <<>>
             /\ IF Take(toSender, 10) = CALL_SIGN
                THEN spc' = "agree"
                ELSE spc' = "error" /\ sErr' = "Invalid protocol"]_vars
    /\ [][spc = "agree" /\ spc' # spc => toReceiver' = MSG_AGREE]_vars
    /\ [][spc = "error" => UNCHANGED <<sendVars, toReceiver>>]_vars

\* a client that is not netcp was turned away, and nothing was written to it
C8_Witness ==
    /\ spc = "error"
    /\ sLog = <<Op("recv", "CALLSIGN", 10)>>
    /\ toReceiver = <<>>
    /\ fWrites >= 1

(***************************************************************************)
(* C9.  The receiver classifies each 4-byte marker exactly: END ends the   *)
(* loop and the session, FILE goes on to the size and then the name, and   *)
(* anything else stops the receiver with "Invalid protocol", after which   *)
(* it reads nothing and creates no file.                                   *)
(***************************************************************************)
C9_MarkerRead ==
    /\ rpc = "marker"
    /\ rpc' # rpc

C9_MarkerClassified ==
    /\ [](\A k \in 1..Len(rLog) :
             /\ rLog[k] = Op("recv", "MARKER", 4) =>
                   k = Len(rLog) /\ rpc = "error" /\ rErr = "Invalid protocol"
             /\ rLog[k] = Op("recv", "END", 4) => k = Len(rLog) /\ rpc = "done"
             /\ rLog[k] = Op("recv", "FILE", 4) =>
                   /\ k < Len(rLog) => rLog[k + 1] = Op("recv", "SIZE", 8)
                   /\ k + 1 < Len(rLog) => rLog[k + 2] = Op("recv", "NAMELEN", 8))
    /\ [][C9_MarkerRead =>
             /\ toReceiver' = Drop(toReceiver, 4)
             /\ CASE Take(toReceiver, 4) = MSG_END ->
                       rpc' = "done" /\ rErr' = ""
                  [] Take(toReceiver, 4) = MSG_FILE ->
                       rpc' = "size" /\ rErr' = ""
                  [] OTHER ->
                       rpc' = "error" /\ rErr' = "Invalid protocol"]_vars
    /\ [][(rpc = "error" \/ rpc = "done") =>
             (NothingRead /\ recvVars' = recvVars)]_vars

\* a file was received, and the marker after it was neither FILE nor END
C9_Witness ==
    /\ rpc = "error"
    /\ rErr = "Invalid protocol"
    /\ Last(rLog) = Op("recv", "MARKER", 4)
    /\ dest # <<>>

(***************************************************************************)
(* C10.  What the sender writes after the handshake, read off the stream   *)
(* of a client that never reads: for the files of the list in their order, *)
(* FILE, the size, the name (length and bytes of that file's name), then   *)
(* nothing before an answer has been read, then payload only after AGREE;  *)
(* END once, after the last file of the list, and nothing after it.        *)
(***************************************************************************)
StreamHas(stream, at, bytes) ==
    /\ Len(stream) >= at + Len(bytes)
    /\ SubSeq(stream, at + 1, at + Len(bytes)) = bytes

\* the log from entry n on matches the stream from offset `at` on; `st` is
\* what may come next and k the number of files announced so far
RECURSIVE WellOrdered(_, _, _, _, _, _)
WellOrdered(log, n, stream, at, st, k) ==
    IF n > Len(log) THEN Len(stream) = at
    ELSE LET op == log[n] IN
         CASE op = Op("recv", "CALLSIGN", 10) ->
                 st = "start" /\ WellOrdered(log, n + 1, stream, at, "agree", k)
           [] op = Op("send", "AGREE", 8) ->
                 /\ st = "agree"
                 /\ StreamHas(stream, at, MSG_AGREE)
                 /\ WellOrdered(log, n + 1, stream, at + 8, "next", k)
           [] op = Op("send", "FILE", 4) ->
                 /\ st \in {"next", "data"}
                 /\ k < Len(file_names)
                 /\ StreamHas(stream, at, MSG_FILE)
                 /\ WellOrdered(log, n + 1, stream, at + 4, "size", k + 1)
           [] op = Op("send", "SIZE", 8) ->
                 /\ st = "size"
                 /\ \E size \in FileSizes : StreamHas(stream, at, U64(size))
                 /\ WellOrdered(log, n + 1, stream, at + 8, "name", k)
           [] op[1] = "send" /\ op[2] = "NAME" ->
                 /\ st = "name"
                 /\ op[3] = 8 + Len(file_names[k])
                 /\ StreamHas(stream, at, U64(Len(file_names[k])) \o file_names[k])
                 /\ WellOrdered(log, n + 1, stream, at + op[3], "await", k)
           [] op = Op("recv", "AGREE", 8) ->
                 st = "await" /\ WellOrdered(log, n + 1, stream, at, "data", k)
           [] op = Op("recv", "DISAGREE", 8) ->
                 st = "await" /\ WellOrdered(log, n + 1, stream, at, "next", k)
           [] op = Op("recv", "TOKEN", 8) ->
                 st = "await" /\ WellOrdered(log, n + 1, stream, at, "stop", k)
           [] op[1] = "send" /\ op[2] = "DATA" ->
                 /\ st = "data"
                 /\ Len(stream) >= at + op[3]
                 /\ WellOrdered(log, n + 1, stream, at + op[3], "data", k)
           [] op = Op("send", "END", 4) ->
                 /\ st \in {"next", "data"}
                 /\ k = Len(file_names)
                 /\ StreamHas(stream, at, MSG_END)
                 /\ WellOrdered(log, n + 1, stream, at + 4, "stop", k)
           [] OTHER -> FALSE

C10_WriteOrder ==
    /\ WellOrdered(sLog, 1, toReceiver, 0, "start", 0)
    /\ spc = "done" => Last(sLog) = Op("send", "END", 4)

\* a whole session of three files, the second refused
C10_Witness ==
    /\ spc = "done"
    /\ Len(file_names) = 3
    /\ SAnswers = <<"AGREE", "DISAGREE", "AGREE">>
    /\ Len(toReceiver) > 8 + 3 * (4 + 8 + 8 + 5) + 4

(***************************************************************************)
(* C11.  check_agreement tells exactly three cases apart: the 8 bytes      *)
(* "AGREE   " are a yes, the 8 bytes "DISAGREE" are a no, and any other 8  *)
(* bytes stop the peer with "Invalid protocol".  The sender that reads an  *)
(* answer to an offer transfers the file on the first, goes to the next    *)
(* file on the second, and on anything else stops without reading or       *)
(* writing again.                                                          *)
(***************************************************************************)
C11_AnswerRead ==
    /\ spc = "await"
    /\ spc' # spc

\* the stream toward the sender is only written to: nothing is read
NothingReadBySender ==
    /\ Len(toSender') >= Len(toSender)
    /\ Take(toSender', Len(toSender)) = toSender

C11_TokenExact ==
    /\ [](\A t \in ForeignTokens :
             /\ (check_agreement(t) = "true") = (t = MSG_AGREE)
             /\ (check_agreement(t) = "false") = (t = MSG_DISAGREE)
             /\ (check_agreement(t) = "error") = (t \notin {MSG_AGREE, MSG_DISAGREE}))
    /\ [](\A k \in 1..Len(sLog) :
             sLog[k] = Op("recv", "TOKEN", 8) =>
                k = Len(sLog) /\ spc = "error" /\ sErr = "Invalid protocol")
    /\ [][C11_AnswerRead =>
             /\ toSender' = Drop(toSender, 8)
             /\ toReceiver' = toReceiver
             /\ CASE Take(toSender, 8) = MSG_AGREE ->
                       spc' = "loop" /\ sErr' = ""
                  [] Take(toSender, 8) = MSG_DISAGREE ->
                       spc' = "next" /\ sErr' = ""
                  [] OTHER ->
                       spc' = "error" /\ sErr' = "Invalid protocol"]_vars
    /\ [][spc = "error" =>
             (NothingReadBySender /\ UNCHANGED <<sendVars, toReceiver>>)]_vars

\* the second offer was answered with 8 bytes that are neither token
C11_Witness ==
    /\ spc = "error"
    /\ sErr = "Invalid protocol"
    /\ sIdx = 2
    /\ Last(sLog) = Op("recv", "TOKEN", 8)
    /\ SAnswers = <<"AGREE">>

(***************************************************************************)
(* C12.  Errors end the session of the peer that detects them.  A failed   *)
(* read or write of the stream ("Connection lost"), 10 bytes that are not  *)
(* the call sign, 8 bytes that are not an answer, 4 bytes that are not a   *)
(* marker, a name that is not UTF-8: each takes the peer to error(), the   *)
(* process exits with status 1, and from then on it reads nothing, writes  *)
(* nothing, creates and writes no file and opens no further file.          *)
(***************************************************************************)
\* the sender neither reads nor writes nor moves
SenderSilent ==
    /\ NothingReadBySender
    /\ toReceiver' = toReceiver
    /\ UNCHANGED sendVars

\* the receiver neither reads nor writes nor touches a file
ReceiverSilent ==
    /\ NothingRead
    /\ toSender' = toSender
    /\ recvVars' = recvVars

C12_SessionFatal ==
    /\ [](/\ (sErr # "") = (spc = "error")
          /\ (rErr # "") = (rpc = "error")
          /\ sErr # "" => ExitStatus(spc) = 1
          /\ rErr # "" => ExitStatus(rpc) = 1
          /\ sErr \in {"", "Connection lost", "Invalid protocol"}
          /\ rErr \in {"", "Connection lost", "Invalid protocol",
                        "No server found", "Couldn't convert bytes to string"})
    /\ [][(spc = "callsign" /\ sLog' # sLog /\ Take(toSender, 10) # CALL_SIGN)
             => spc' = "error" /\ sErr' = "Invalid protocol"]_vars
    /\ [][(spc = "await" /\ sLog' # sLog
             /\ Take(toSender, 8) \notin {MSG_AGREE, MSG_DISAGREE})
             => spc' = "error" /\ sErr' = "Invalid protocol"]_vars
    /\ [][(rpc = "agreement" /\ rLog' # rLog /\ Take(toReceiver, 8) # MSG_AGREE)
             => rpc' = "error" /\ rErr' \in {"Invalid protocol", "No server found"}]_vars
    /\ [][(rpc = "marker" /\ rLog' # rLog
             /\ Take(toReceiver, 4) \notin {MSG_FILE, MSG_END})
             => rpc' = "error" /\ rErr' = "Invalid protocol"]_vars
    /\ [][(rpc = "name" /\ rLog' # rLog /\ rNameLen = U64(1)
             /\ Take(toReceiver, 1) = <<255>>)
             => /\ rpc' = "error"
                /\ rErr' = "Couldn't convert bytes to string"
                /\ dest' = dest]_vars
    /\ [][spc = "error" => SenderSilent]_vars
    /\ [][rpc = "error" => ReceiverSilent]_vars

\* the name of the first file offered was no UTF-8: the receiver has stopped,
\* and the next marker of the server stays unread
C12_Witness ==
    /\ rpc = "error"
    /\ rErr = "Couldn't convert bytes to string"
    /\ ExitStatus(rpc) = 1
    /\ dest = <<>>
    /\ toReceiver = MSG_FILE

(***************************************************************************)
(* C13.  receive_data and send_data move exactly the bytes asked for or    *)
(* fail: a call that has returned has moved buf.len() (data.len()) bytes,  *)
(* no more and no fewer; a call never moves more than that; every byte it  *)
(* counts is a byte it took from (put on) the stream; and a call that has  *)
(* ended, either way, moves nothing more.                                  *)
(***************************************************************************)
C13_ExactOrFail ==
    /\ [](/\ ioCount <= ioLen
          /\ ioPc = "returned" => ioCount = ioLen /\ ioErr = ""
          /\ ioPc = "error" =>
                ioErr \in {"Connection lost", "Connection lost (timeout)"}
          /\ ioErr # "" => ioPc = "error")
    /\ [][ioCount' # ioCount =>
             /\ ioPc = "attempt"
             /\ ioCount' > ioCount
             /\ ioCount' - ioCount = ioAvail - ioAvail']_vars
    /\ [][ioAvail' < ioAvail => ioCount' - ioCount = ioAvail - ioAvail']_vars
    /\ [][(ioPc = "returned" \/ ioPc = "error") => UNCHANGED ioVars]_vars

\* a read of 3 bytes that took more than one attempt has returned
C13_Witness ==
    /\ ioPc = "returned"
    /\ ioKind = "receive_data"
    /\ ioLen = 3
    /\ ioCount = 3
    /\ ioLast = 1
    /\ ioAvail > 0

(***************************************************************************)
(* C14.  The timeout is an idle timeout, not a limit on the whole call:    *)
(* every attempt that moves at least one byte sets begin to the time of    *)
(* that attempt, an attempt that moves nothing leaves begin alone, and a   *)
(* call fails with "Connection lost (timeout)" only if 800 ms or more have *)
(* passed since begin, that is since the last attempt that moved a byte    *)
(* (or the start of the call).  A call that keeps moving bytes at shorter  *)
(* intervals does not time out, however long it takes in all.              *)
(***************************************************************************)
C14_ProgressResets ==
    /\ [](/\ ioBegin <= ioNow
          /\ ioErr = "Connection lost (timeout)" =>
                ioChecked - ioBegin >= TIMEOUT)
    /\ [][ioCount' > ioCount => ioBegin' = ioNow]_vars
    /\ [][(ioPc = "attempt" /\ ioPc' = "check" /\ ioCount' = ioCount) =>
             ioBegin' = ioBegin]_vars

\* a write of 3 bytes, one every 500 ms, has returned after 1500 ms
C14_Witness ==
    /\ ioPc = "returned"
    /\ ioKind = "send_data"
    /\ ioLen = 3
    /\ ioCount = 3
    /\ ioLast = 1
    /\ ioBegin = 1500
    /\ ioChecked = 1500

(***************************************************************************)
(* C15.  A u64 goes over the wire as 8 bytes, least significant first,     *)
(* whatever the byte order of the sending machine, and receive_u64 gives   *)
(* back the value that send_u64 was given, whatever the byte orders of the *)
(* two machines.                                                           *)
(***************************************************************************)
\* byte k (from 1) of the little-endian encoding of a u64 held as digits
LittleEndianByte(num, k) == num[k]

C15_U64RoundTrip ==
    /\ codecPc = "send_u64" =>
          /\ Len(wire) = 8
          /\ \A k \in 1..8 : wire[k] = LittleEndianByte(codecIn, k)
          /\ codecIn = U64(1300) => wire = <<20, 5, 0, 0, 0, 0, 0, 0>>
    /\ codecPc = "receive_u64" =>
          /\ codecOut = codecIn
          /\ wire = <<>>

\* 0x0102030405060708 went from a big-endian to a little-endian machine
C15_Witness ==
    /\ codecPc = "receive_u64"
    /\ sendHost = "big"
    /\ recvHost = "little"
    /\ codecIn = <<8, 7, 6, 5, 4, 3, 2, 1>>
    /\ codecOut = <<8, 7, 6, 5, 4, 3, 2, 1>>

(***************************************************************************)
(* C16.  A string goes over the wire as its length in bytes (a u64) and    *)
(* then its bytes, with nothing behind them, and receive_string gives back *)
(* the string send_string was given, the empty one included, taking        *)
(* exactly 8 + len bytes off the stream: what the sender wrote behind the  *)
(* string is still there.                                                  *)
(***************************************************************************)
C16_StringRoundTrip ==
    /\ [](codecPc = "send_string" =>
             LET sent == U64(Len(codecIn)) \o codecIn
             IN  wire = sent \/ wire = sent \o MSG_END)
    /\ [](codecPc = "receive_string" =>
             /\ codecOut = codecIn
             /\ wire = <<>> \/ wire = MSG_END)
    /\ [](codecPc # "error")
    /\ [][(codecPc = "send_string" /\ codecPc' # codecPc) =>
             /\ codecPc' = "receive_string"
             /\ codecOut' = codecIn
             /\ Len(wire') = Len(wire) - (8 + Len(codecIn))
             /\ wire' = Drop(wire, 8 + Len(codecIn))]_vars

\* the empty string was received, and the END behind it was left alone
C16_Witness ==
    /\ codecPc = "receive_string"
    /\ codecIn = <<>>
    /\ codecOut = <<>>
    /\ wire = MSG_END
    /\ sendHost # recvHost

(***************************************************************************)
(* C17.  compare_byte_array is equality of byte sequences: true exactly    *)
(* when the two have the same length and the same byte at every position.  *)
(* Sequences of different lengths are never equal, so "AGREE" cut short,   *)
(* padded to another length or padded with other bytes equals neither      *)
(* "AGREE   " nor "DISAGREE".                                              *)
(***************************************************************************)
C17_ByteEquality ==
    codecPc = "compare_byte_array" =>
       LET a == codecIn[1]
           b == codecIn[2]
           equal == codecOut[1]
       IN  /\ equal = (/\ Len(a) = Len(b)
                       /\ \A k \in 1..Len(a) : a[k] = b[k])
           /\ Len(a) # Len(b) => ~equal
           /\ (b \in {MSG_AGREE, MSG_DISAGREE} /\ equal) => a = b
           /\ a = b => equal

\* "AGREE" without its padding was compared with the token "AGREE   "
C17_Witness ==
    /\ codecPc = "compare_byte_array"
    /\ codecIn = << <<65, 71, 82, 69, 69>>, MSG_AGREE >>
    /\ codecOut = <<FALSE>>

(***************************************************************************)
(* C18.  Sender and receiver agree on where every field lies in the        *)
(* stream.  What the receiver has read is, field by field, the beginning   *)
(* of what the sender has written: a marker where the sender wrote a       *)
(* marker, the size, the name, and payload chunks of the very lengths the  *)
(* sender wrote, whatever the size of the file; and likewise for what the  *)
(* sender reads.  So the 4 bytes at the receiver's marker read are FILE or *)
(* END, no peer reaches an error, and the bytes in the received files are  *)
(* bytes of the file that was sent.                                        *)
(***************************************************************************)
IsSend(op) == op[1] = "send"
IsRecv(op) == op[1] = "recv"

\* the reads rs are the beginning of the writes ws; the name is written in one
\* entry (length and bytes) and read in two
RECURSIVE Aligned(_, _)
Aligned(ws, rs) ==
    IF rs = <<>> THEN TRUE
    ELSE IF ws = <<>> THEN FALSE
    ELSE IF Head(ws)[2] = "NAME"
    THEN /\ Head(rs) = Op("recv", "NAMELEN", 8)
         /\ \/ Tail(rs) = <<>>
            \/ /\ Head(Tail(rs)) = Op("recv", "NAME", Head(ws)[3] - 8)
               /\ Aligned(Tail(ws), Tail(Tail(rs)))
    ELSE /\ Head(rs)[2] = Head(ws)[2]
         /\ Head(rs)[3] = Head(ws)[3]
         /\ Aligned(Tail(ws), Tail(rs))

IsNameRead(op) == op[1] = "recv" /\ op[2] = "NAME"

C18_InStep ==
    /\ Aligned(SelectSeq(sLog, IsSend), SelectSeq(rLog, IsRecv))
    /\ Aligned(SelectSeq(rLog, IsSend), SelectSeq(sLog, IsRecv))
    /\ spc # "error" /\ sErr = ""
    /\ rpc # "error" /\ rErr = ""
    /\ (rpc = "marker" /\ Len(toReceiver) >= 4) =>
          Take(toReceiver, 4) \in {MSG_FILE, MSG_END}
    /\ (rpc = "marker" /\ RAccepted) =>
          Sum(DataSuffix(rLog)) = Len(dest[rFilename])
    /\ (rpc = "marker" /\ RAccepted) =>
          LET ws == SelectSeq(sLog, IsSend)
              n == Len(SelectSeq(rLog, IsRecv)) - Len(SelectSeq(rLog, IsNameRead))
          IN  IF n < Len(ws) THEN ~IsData(ws[n + 1])
              ELSE spc = "loop" =>
                      SendLoopStep(overflowChecks, sFilesize, sI).len = 0
    /\ \A name \in DOMAIN dest : dest[name] = FileChunk(0, Len(dest[name]))

IsFileRead(op) == op = Op("recv", "FILE", 4)

\* the second file, of 513 bytes, has been received and the marker that
\* follows it is next in the stream
C18_Witness ==
    /\ rpc = "marker"
    /\ RAccepted
    /\ rFilesize = U64(513)
    /\ Len(SelectSeq(rLog, IsFileRead)) = 2
    /\ DataSuffix(rLog) = <<BUF_LEN>>
    /\ toReceiver = MSG_FILE

(***************************************************************************)
(* C19.  The exchange is half-duplex: at no time do both directions of the *)
(* stream hold bytes that have not been read.  The receiver writes (call   *)
(* sign, AGREE, DISAGREE) only when it has read all the sender has         *)
(* written, and the sender writes only when it has read all the receiver   *)
(* has written.                                                            *)
(***************************************************************************)
C19_HalfDuplex ==
    /\ [](toSender = <<>> \/ toReceiver = <<>>)
    /\ [][Len(toSender') > Len(toSender) =>
             toReceiver = <<>> /\ toSender = <<>>]_vars
    /\ [][Len(toReceiver') > Len(toReceiver) => toSender = <<>>]_vars

\* the receiver has refused the second offer and the sender has not read the
\* answer yet
C19_Witness ==
    /\ spc = "await"
    /\ sIdx = 2
    /\ toSender = MSG_DISAGREE
    /\ toReceiver = <<>>
    /\ Cardinality(DOMAIN dest) = 1

(***************************************************************************)
(* C20.  Every session ends: whatever the file list, the sizes and the     *)
(* outcomes of the file creations, the sender eventually has written END   *)
(* as its last write and returned, and the receiver eventually has read    *)
(* END as its last read and left its loop, with nothing left in the        *)
(* stream.                                                                 *)
(***************************************************************************)
C20_Terminates ==
    <>(/\ spc = "done"
       /\ rpc = "done"
       /\ Last(sLog) = Op("send", "END", 4)
       /\ Last(rLog) = Op("recv", "END", 4)
       /\ toSender = <<>>
       /\ toReceiver = <<>>)

====
